---- MODULE Spec2Model ----
(***************************************************************************)
(* Verification model of airflow-mcp-server.                               *)
(*                                                                         *)
(* Five parts of the repository are modelled, each with its own next-state *)
(* relation:                                                               *)
(*   Spec        the hierarchical tool manager (hierarchical_manager.py)   *)
(*               driving the FastMCP tool registry, used by two sessions;  *)
(*   SpecServer  the low-level MCP server entry points (server.py,         *)
(*               server_safe.py, server_unsafe.py) and their call_tool;    *)
(*   SpecCall    one operation on its way from the OpenAPI document to the *)
(*               upstream: OperationParser, AirflowTool, AirflowClient;    *)
(*   SpecCache   the ToolManager's tool cache (tools/tool_manager.py);     *)
(*   SpecToolset the HTTP dispatcher of the plugin's toolset.              *)
(***************************************************************************)
EXTENDS Integers, Sequences, FiniteSets, TLC

VARIABLES
    openapi_spec,            \* the operations of the OpenAPI document ("paths")
    mode,                    \* "safe" | "unsafe": which serve() was started
    current_mode,            \* HierarchicalToolManager.current_mode
    current_tools,           \* HierarchicalToolManager.current_tools
    category_tool_instances, \* HierarchicalToolManager.category_tool_instances (its keys)
    mcp_tools,               \* tools registered on the FastMCP instance by mcp.tool()
    info_category,           \* the category the registered category_info closure captured
    mounted,                 \* the mcp.mount(prefix, ...) calls made so far, in order
    notifications,           \* per session: number of send_tool_list_changed calls
    last,                    \* the handler invocation that completed last, with its reply
    wire,                    \* what that handler put on its session's channel, in order
    inflight,                \* per request slot: the call_tool suspended on the upstream
    sent,                    \* upstream HTTP requests issued so far
    server_last,             \* the low-level server's handler that completed last
    serve_pc,                \* where serve() is: inside server.run, returned or raised
    http_client,             \* AirflowClient._client: set or None, and how often opened/closed
    fetched,                 \* outcomes of the OpenAPI fetches made so far
    operation,               \* the OpenAPI operation being compiled and called
    input_model,             \* OperationDetails.input_model of that operation
    request,                 \* the HTTP request the current call handed to the session
    call_result,             \* how the call that ran last ended
    tool_cache,              \* ToolManager._tool_cache: (operation id, tool) in insertion order
    max_cache_size,          \* ToolManager._max_cache_size
    created,                 \* number of AirflowTool instances created so far
    pending,                 \* per task: the operation id of its get_tool that has not run yet
    results,                 \* per task: what its last get_tool returned
    evicted_any,             \* whether an entry was ever evicted from the cache
    get_last,                \* the get_tool that completed last
    components,              \* components/schemas of the document: properties per schema
    model_stack,             \* the _create_model calls in progress, innermost last
    schema_cache,            \* OperationParser._schema_cache: the refs resolved so far
    models_created,          \* number of models _create_model has returned
    compile_result           \* how the compilation of the response model ended

vars == << openapi_spec, mode, current_mode, current_tools, category_tool_instances,
           mcp_tools, info_category, mounted, notifications, last, wire,
           inflight, sent, server_last, serve_pc, http_client, fetched,
           operation, input_model, request, call_result,
           tool_cache, max_cache_size, created, pending, results, evicted_any, get_last,
           components, model_stack, schema_cache, models_created, compile_result >>

navVars == << current_mode, current_tools, category_tool_instances, mcp_tools,
              info_category, mounted, notifications, last, wire >>

serverVars == << inflight, sent, server_last, serve_pc, http_client, fetched >>

configVars == << openapi_spec, mode >>

refVars == << components, model_stack, schema_cache, models_created, compile_result >>

callVars == << operation, input_model, request, call_result >>

cacheVars == << tool_cache, max_cache_size, created, pending, results, evicted_any, get_last >>

(***************************************************************************)
(* Bounds                                                                  *)
(***************************************************************************)
\* mcp.mount calls followed per run
MaxMounts == 3

\* number of times serve's handlers may enter the client's context
MaxClientOpens == 2

\* how many times a caller enters the client's context before the one call
\* that is followed
MaxContexts == 1

\* depth of nested _create_model calls at which the interpreter raises
\* RecursionError (sys.getrecursionlimit(), 1000 frames by default)
RecursionLimit == 4

\* number of AirflowTool instances a ToolManager may create
MaxCreated == 4

(***************************************************************************)
(* The OpenAPI documents the server may be started with                    *)
(***************************************************************************)
Operation(id, method, tags) == [operation_id |-> id, method |-> method, tags |-> tags]

AllOperations ==
    { Operation("get_dags", "GET", <<"DAG">>),
      Operation("post_dag_run", "POST", <<"DAG", "Connections">>),
      Operation("get_connections", "GET", <<"Connections">>),
      Operation("get_dag_runs_batch", "POST", <<>>) }

Sessions == {"s1", "s2"}

NoCategory == "categories"

AllowedMethods ==
    IF mode = "safe" THEN {"GET"} ELSE {"GET", "POST", "PUT", "DELETE", "PATCH"}

(***************************************************************************)
(* Category mapper                                                         *)
(***************************************************************************)
CategoryOf(route) == IF route.tags = <<>> THEN "Uncategorized" ELSE route.tags[1]

extract_categories_from_openapi(spec) ==
    [c \in {CategoryOf(r) : r \in spec} |-> {r \in spec : CategoryOf(r) = c}]

filter_routes_by_methods(routes, allowed_methods) ==
    {r \in routes : r.method \in allowed_methods}

get_tool_name_from_route(route) == route.operation_id

\* self.categories without the test for an empty list of filtered routes
categories_keep_empty ==
    LET all_categories == extract_categories_from_openapi(openapi_spec)
    IN  [c \in DOMAIN all_categories |->
            filter_routes_by_methods(all_categories[c], AllowedMethods)]

\* HierarchicalToolManager.__init__: self.categories
categories ==
    LET all_categories == extract_categories_from_openapi(openapi_spec)
        kept == {c \in DOMAIN all_categories :
                    filter_routes_by_methods(all_categories[c], AllowedMethods) # {}}
    IN  [c \in kept |-> filter_routes_by_methods(all_categories[c], AllowedMethods)]

(***************************************************************************)
(* FastMCP registry as the manager drives it                               *)
(***************************************************************************)
Tool(prefix, name) == [prefix |-> prefix, name |-> name]

PERSISTENT_TOOLS == {"browse_categories", "select_category", "get_current_category"}

NavigationTools == {"browse_categories", "select_category", "get_current_category",
                    "back_to_categories"}

Range(s) == {s[i] : i \in DOMAIN s}

\* what the FastMCP instance advertises: its own tools and those of every
\* mount, the sub-server of a category having one tool per route of the
\* filtered document, reachable under the category prefix
ListTools ==
    {Tool("", n) : n \in mcp_tools}
        \cup UNION {{Tool(c, get_tool_name_from_route(r)) : r \in categories[c]} :
                        c \in Range(mounted)}

NoReply == [op |-> "none", session |-> "s1", arg |-> "", kind |-> "none",
            category |-> NoCategory, count |-> 0, names |-> {}, tools |-> {}]

Reply(op, s, arg, kind, category, count, names, tools) ==
    [op |-> op, session |-> s, arg |-> arg, kind |-> kind, category |-> category,
     count |-> count, names |-> names, tools |-> tools]

\* request slots of the low-level server's session
Calls == {"c1", "c2"}

\* AirflowClient._client after __init__
NoClient == [open |-> FALSE, opened |-> 0, closed |-> 0]

NoOutcome == [op |-> "none", call |-> "c1", name |-> "", outcome |-> "none",
              error |-> "", tools |-> {}]

Outcome(op, c, name, outcome, error, tools) ==
    [op |-> op, call |-> c, name |-> name, outcome |-> outcome, error |-> error,
     tools |-> tools]

(***************************************************************************)
(* Values, argument objects and the records of one call                    *)
(***************************************************************************)
\* JSON values of an argument object.  A text is the sequence of its
\* characters; "dags" and the like stand for a run of unreserved characters.
Str(s) == [t |-> "string", s |-> s, n |-> 0, b |-> FALSE, a |-> <<>>]

Num(n) == [t |-> "integer", s |-> <<>>, n |-> n, b |-> FALSE, a |-> <<>>]

Bool(b) == [t |-> "boolean", s |-> <<>>, n |-> 0, b |-> b, a |-> <<>>]

Arr(a) == [t |-> "array", s |-> <<>>, n |-> 0, b |-> FALSE, a |-> a]

Null == [t |-> "null", s |-> <<>>, n |-> 0, b |-> FALSE, a |-> <<>>]

\* a dict keeps its keys in insertion order: a sequence of key/value items
Item(k, v) == [k |-> k, v |-> v]

Keys(d) == {d[i].k : i \in DOMAIN d}

Get(d, k) == d[CHOOSE i \in DOMAIN d : d[i].k = k].v

\* d[k] = v: a key already present keeps its place, a new key goes last
DictSet(d, k, v) ==
    IF k \in Keys(d)
    THEN [i \in DOMAIN d |-> IF d[i].k = k THEN Item(k, v) ELSE d[i]]
    ELSE Append(d, Item(k, v))

\* an optional dict argument: None or a dict
None == [some |-> FALSE, items |-> <<>>]

Some(d) == [some |-> TRUE, items |-> d]

\* bool(x) of an optional dict: None and {} are falsy
Truthy(x) == x.some /\ x.items # <<>>

NoOperation == [operation_id |-> "", method |-> "", path |-> <<>>,
                parameters |-> <<>>, request_body |-> <<>>, added_keys |-> {}]

NoModel == [name |-> "", fields |-> <<>>,
            parameter_mapping |-> [path |-> <<>>, query |-> <<>>, body |-> <<>>]]

NoRequest == [method |-> "", url |-> <<>>, params |-> None, json |-> None]

\* the three optional dicts AirflowTool.run and AirflowClient.execute take
Arguments(path_params, query_params, body) ==
    [path_params |-> path_params, query_params |-> query_params, body |-> body]

NoReplyYet == [kind |-> "none", status |-> 0, content_type |-> <<>>, body |-> ""]

\* a value computed from a response body: fn(of), such as the parsed JSON
Value(fn, of) == [fn |-> fn, of |-> of]

NoValue == [fn |-> "", of |-> ""]

\* outcome: "content" (a list of content parts, with structured content or
\* none), "error_content" (content parts flagged as an error), "returned"
\* (a value handed to the caller), "raised" (an exception)
NoCallResult == [op |-> "none", arguments |-> Arguments(None, None, None),
                 outcome |-> "none", error |-> "", content |-> <<>>,
                 structured |-> NoValue, value |-> NoValue, reply |-> NoReplyYet]

CallResult(op, arguments, outcome, error, content, structured, value, reply) ==
    [op |-> op, arguments |-> arguments, outcome |-> outcome, error |-> error,
     content |-> content, structured |-> structured, value |-> value, reply |-> reply]

\* tasks that call ToolManager.get_tool
GetTasks == {"g1", "g2"}

NotPending == "-"

\* schemas under components/schemas of the document
RefSchemas == {"Node", "Leaf"}

\* an OperationParser that has compiled nothing, over a document whose
\* schemas have no properties
NoCompiler ==
    /\ components = [s \in RefSchemas |-> <<>>]
    /\ model_stack = <<>>
    /\ schema_cache = {}
    /\ models_created = 0
    /\ compile_result = "none"

\* the ToolManager before any get_tool
NoToolManager ==
    /\ tool_cache = <<>>
    /\ created = 0
    /\ pending = [t \in GetTasks |-> NotPending]
    /\ results = [t \in GetTasks |-> [operation_id |-> "", tool |-> 0]]
    /\ evicted_any = FALSE
    /\ get_last = [task |-> "g1", operation_id |-> "", outcome |-> "none", error |-> "",
                   tool |-> 0, hit |-> FALSE, evicted |-> <<>>]

(***************************************************************************)
(* Initial state: after HierarchicalToolManager.__init__                   *)
(***************************************************************************)
Init ==
    /\ openapi_spec \in SUBSET AllOperations
    /\ mode \in {"safe", "unsafe"}
    /\ current_mode = NoCategory
    /\ current_tools = PERSISTENT_TOOLS
    /\ category_tool_instances = {}
    /\ mcp_tools = PERSISTENT_TOOLS
    /\ info_category = NoCategory
    /\ mounted = <<>>
    /\ notifications = [s \in Sessions |-> 0]
    /\ last = NoReply
    /\ wire = <<>>
    /\ inflight = [c \in Calls |-> "idle"]
    /\ sent = {}
    /\ server_last = NoOutcome
    /\ serve_pc = "run"
    /\ http_client = NoClient
    /\ fetched = {}
    /\ operation = NoOperation
    /\ input_model = NoModel
    /\ request = NoRequest
    /\ call_result = NoCallResult
    /\ max_cache_size = 1
    /\ NoToolManager
    /\ NoCompiler

(***************************************************************************)
(* HierarchicalToolManager                                                 *)
(***************************************************************************)
\* _remove_current_tools: the tools left registered, mounts stay
RemoveCurrentTools(tools) == tools \ (current_tools \ PERSISTENT_TOOLS)

\* switch_to_category's guard
CategoryKnown(category) == category \in DOMAIN categories

\* the not-found reply is sent only after the current tools were removed
select_category_unvalidated_removal(s, category) ==
    /\ Tool("", "select_category") \in ListTools
    /\ CategoryKnown(category) => Len(mounted) < MaxMounts
    /\ IF ~CategoryKnown(category)
       THEN /\ last' = Reply("select_category", s, category, "not_found", NoCategory, 0,
                             DOMAIN categories, {})
            /\ mcp_tools' = RemoveCurrentTools(mcp_tools)
            /\ current_tools' = current_tools \cap PERSISTENT_TOOLS
            /\ UNCHANGED << current_mode, category_tool_instances, info_category, mounted >>
       ELSE /\ mcp_tools' = RemoveCurrentTools(mcp_tools) \cup {"category_info"}
            /\ current_tools' = (current_tools \cap PERSISTENT_TOOLS) \cup {"category_info"}
            /\ info_category' = category
            /\ mounted' = Append(mounted, category)
            /\ category_tool_instances' = category_tool_instances \cup {category}
            /\ current_mode' = category
            /\ last' = Reply("select_category", s, category, "switched", category,
                             Cardinality(categories[category]), {}, {})
    /\ wire' = <<"reply">>
    /\ UNCHANGED << notifications, configVars, refVars, cacheVars, serverVars, callVars >>

\* select_category(category) -> switch_to_category(category):
\* _remove_current_tools, _add_category_tools, _create_category_api_tools
select_category(s, category) ==
    /\ Tool("", "select_category") \in ListTools
    /\ CategoryKnown(category) => Len(mounted) < MaxMounts
    /\ IF ~CategoryKnown(category)
       THEN /\ last' = Reply("select_category", s, category, "not_found", NoCategory, 0,
                             DOMAIN categories, {})
            /\ UNCHANGED << current_mode, current_tools, category_tool_instances,
                            mcp_tools, info_category, mounted >>
       ELSE /\ mcp_tools' = RemoveCurrentTools(mcp_tools) \cup {"category_info"}
            /\ current_tools' = (current_tools \cap PERSISTENT_TOOLS) \cup {"category_info"}
            /\ info_category' = category
            /\ mounted' = Append(mounted, category)
            /\ category_tool_instances' = category_tool_instances \cup {category}
            /\ current_mode' = category
            /\ last' = Reply("select_category", s, category, "switched", category,
                             Cardinality(categories[category]), {}, {})
    /\ wire' = <<"reply">>
    /\ UNCHANGED << notifications, configVars, refVars, cacheVars, serverVars, callVars >>

\* get_categories_info -> get_category_info(self.categories)
browse_categories(s) ==
    /\ Tool("", "browse_categories") \in ListTools
    /\ last' = Reply("browse_categories", s, "", "categories", NoCategory,
                     Cardinality(UNION {categories[c] : c \in DOMAIN categories}),
                     DOMAIN categories, {})
    /\ wire' = <<"reply">>
    /\ UNCHANGED << current_mode, current_tools, category_tool_instances, mcp_tools,
                    info_category, mounted, notifications,
                    configVars, refVars, cacheVars, serverVars, callVars >>

get_current_category(s) ==
    /\ Tool("", "get_current_category") \in ListTools
    /\ IF current_mode = NoCategory
       THEN last' = Reply("get_current_category", s, "", "no_category", NoCategory, 0,
                          {}, {})
       ELSE last' = Reply("get_current_category", s, "", "current", current_mode,
                          Cardinality(categories[current_mode]), {}, {})
    /\ wire' = <<"reply">>
    /\ UNCHANGED << current_mode, current_tools, category_tool_instances, mcp_tools,
                    info_category, mounted, notifications,
                    configVars, refVars, cacheVars, serverVars, callVars >>

\* the category_info tool registered by _add_category_tools
category_info(s) ==
    /\ Tool("", "category_info") \in ListTools
    /\ last' = Reply("category_info", s, "", "category_tools", info_category,
                     Cardinality(categories[info_category]),
                     {get_tool_name_from_route(r) : r \in categories[info_category]}, {})
    /\ wire' = <<"reply">>
    /\ UNCHANGED << current_mode, current_tools, category_tool_instances, mcp_tools,
                    info_category, mounted, notifications,
                    configVars, refVars, cacheVars, serverVars, callVars >>

\* names a peer may call: every navigation tool of the documentation, the
\* category_info tool, every operation under its category's prefix, and an
\* operation id without prefix
CallableNames ==
    {Tool("", n) : n \in NavigationTools \cup {"category_info"}}
        \cup {Tool(CategoryOf(o), o.operation_id) : o \in AllOperations}
        \cup {Tool("", "get_dags")}

\* an operation tool of a mounted category sub-server
operation_tool(s, tool) ==
    /\ tool \in ListTools
    /\ tool.prefix # ""
    /\ last' = Reply("operation_tool", s, tool.name, "result", tool.prefix, 0, {}, {})
    /\ wire' = <<"reply">>
    /\ UNCHANGED << current_mode, current_tools, category_tool_instances, mcp_tools,
                    info_category, mounted, notifications,
                    configVars, refVars, cacheVars, serverVars, callVars >>

\* call_tool with a name the FastMCP instance has no tool for
unknown_tool(s, tool) ==
    /\ tool \notin ListTools
    /\ last' = Reply("call_tool", s, tool.name, "unknown_tool", tool.prefix, 0, {}, {})
    /\ wire' = <<"reply">>
    /\ UNCHANGED << current_mode, current_tools, category_tool_instances, mcp_tools,
                    info_category, mounted, notifications,
                    configVars, refVars, cacheVars, serverVars, callVars >>

\* list_tools on the FastMCP instance
list_tools(s) ==
    /\ last' = Reply("list_tools", s, "", "tools", current_mode, 0, {}, ListTools)
    /\ wire' = <<"reply">>
    /\ UNCHANGED << current_mode, current_tools, category_tool_instances, mcp_tools,
                    info_category, mounted, notifications,
                    configVars, refVars, cacheVars, serverVars, callVars >>

Next ==
    \/ \E s \in Sessions : browse_categories(s)
    \/ \E s \in Sessions, category \in {"DAG", "Connections", "Uncategorized", "Nope"} :
           select_category(s, category)
    \/ \E s \in Sessions : get_current_category(s)
    \/ \E s \in Sessions : category_info(s)
    \/ \E s \in Sessions, tool \in CallableNames : operation_tool(s, tool)
    \/ \E s \in Sessions, tool \in CallableNames : unknown_tool(s, tool)
    \/ \E s \in Sessions : list_tools(s)

Spec == Init /\ [][Next]_vars

(***************************************************************************)
(* Claims about the hierarchical tool manager (checked under Spec)         *)
(***************************************************************************)
\* What a session observes: the manager keeps current_mode and the registered
\* tools on itself, so every session reads the same ones.
SelectedOn(s) == current_mode

ListToolsOn(s) == ListTools

\* C2: session isolation -- a call handled for one session changes neither the
\* selected category of the other session nor what list_tools returns on it.
C2_SessionIsolation ==
    [][\A s \in Sessions :
          last'.session # s =>
              /\ SelectedOn(s)' = SelectedOn(s)
              /\ ListToolsOn(s)' = ListToolsOn(s)]_vars

\* C3: the selected category is Unset or a category of the index;
\* select_category(c) with a known c leads to Selected(c), back_to_categories
\* leads to Unset from any state, a select_category with an unknown name and
\* every other call leave it unchanged, and get_current_category reports the
\* selected category with its tool count or that no category is selected.
C3_StateMachine ==
    [][/\ current_mode' \in {NoCategory} \cup DOMAIN categories
       /\ (last'.op = "select_category" /\ last'.arg \in DOMAIN categories)
              => current_mode' = last'.arg
       /\ (last'.op = "call_tool" /\ last'.arg = "back_to_categories")
              => current_mode' = NoCategory
       /\ ~(last'.op = "select_category" /\ last'.arg \in DOMAIN categories)
              /\ ~(last'.op = "call_tool" /\ last'.arg = "back_to_categories")
              => current_mode' = current_mode
       /\ last'.op = "get_current_category" =>
              IF current_mode = NoCategory
              THEN last'.kind = "no_category"
              ELSE /\ last'.kind = "current"
                   /\ last'.category = current_mode
                   /\ last'.count = Cardinality(categories[current_mode])]_vars

\* the operation tools of a category, under whatever prefix they are advertised
OperationNames(tools) == {tl.name : tl \in {x \in tools : x.name \notin NavigationTools}}

CategoryToolNames(category) ==
    {get_tool_name_from_route(r) : r \in categories[category]}

\* C4: list_tools returns exactly the four navigation tools when no category
\* is selected and, when c is selected, the navigation tools plus the
\* operation tools of c only.
C4_ListedTools ==
    last.op = "list_tools" =>
        /\ {tl \in last.tools : tl.name \in NavigationTools}
               = {Tool("", n) : n \in NavigationTools}
        /\ OperationNames(last.tools)
               = IF current_mode = NoCategory THEN {}
                 ELSE CategoryToolNames(current_mode)

\* C5: select_category with a name that is not in the category index replies
\* with the known categories, leaves the selected category and the advertised
\* tools as they were, and sends no tool_list_changed.
C5_UnknownCategory ==
    [][(last'.op = "select_category" /\ last'.arg \notin DOMAIN categories) =>
          /\ last'.kind = "not_found"
          /\ last'.names = DOMAIN categories
          /\ current_mode' = current_mode
          /\ ListTools' = ListTools
          /\ notifications' = notifications]_vars

\* C5 witness: an unknown name was rejected while a category was selected
C5_Witness ==
    /\ last.op = "select_category"
    /\ last.kind = "not_found"
    /\ last.names # {}
    /\ current_mode # NoCategory
    /\ Tool("", "category_info") \in ListTools

\* C6: select_category(c) with a known c sets Selected(c) and sends exactly
\* one tool_list_changed on the calling session (and none on the other).
C6_SelectNotifies ==
    [][(last'.op = "select_category" /\ last'.kind = "switched") =>
          /\ current_mode' = last'.arg
          /\ notifications' =
                 [notifications EXCEPT ![last'.session] = notifications[last'.session] + 1]]_vars

\* C7: back_to_categories leaves an Unset session Unset, turns a Selected one
\* into Unset, and sends exactly one tool_list_changed either way.
C7_BackToCategories ==
    [][(last'.op = "call_tool" /\ last'.arg = "back_to_categories") =>
          /\ current_mode' = NoCategory
          /\ notifications' =
                 [notifications EXCEPT ![last'.session] = notifications[last'.session] + 1]]_vars

\* C8: list_tools always advertises the four navigation tools.
C8_NavigationToolsAdvertised ==
    \A n \in NavigationTools : Tool("", n) \in ListTools

\* C9: the first list_tools on a fresh session selects DAG and returns the
\* DAG tools when the index has a category named DAG, and otherwise leaves
\* the category unset and returns navigation tools only; a later list_tools
\* selects nothing.
C9_DefaultCategory ==
    [][last'.op = "list_tools" =>
          IF last = NoReply
          THEN IF "DAG" \in DOMAIN categories
               THEN /\ current_mode' = "DAG"
                    /\ CategoryToolNames("DAG") \subseteq OperationNames(last'.tools)
               ELSE /\ current_mode' = NoCategory
                    /\ OperationNames(last'.tools) = {}
          ELSE current_mode' = current_mode]_vars

\* the categories of the index an operation is listed in
CategoriesOf(o) == {c \in DOMAIN categories : o \in categories[c]}

\* C23: in the category index every operation of the document whose method
\* is allowed is in exactly one category, the one named by its first tag or
\* Uncategorized when it has no tags; no operation with a disallowed method
\* is in any category; and no category is empty.
C23_CategoryIndex ==
    /\ \A o \in openapi_spec :
          IF o.method \in AllowedMethods
          THEN CategoriesOf(o)
                  = {IF Len(o.tags) = 0 THEN "Uncategorized" ELSE Head(o.tags)}
          ELSE CategoriesOf(o) = {}
    /\ \A c \in DOMAIN categories :
          categories[c] # {} /\ categories[c] \subseteq openapi_spec

C23_Witness ==
    /\ mode = "safe"
    /\ openapi_spec = AllOperations
    /\ DOMAIN categories = {"DAG", "Connections"}
    /\ last.op = "browse_categories"
    /\ last.names = {"DAG", "Connections"}

(***************************************************************************)
(* The low-level MCP server: serve() of server.py, server_safe.py and      *)
(* server_unsafe.py, with the list_tools and call_tool handlers it         *)
(* registers.  The server runs over stdio, one session per process; its    *)
(* requests are handled as concurrent tasks, here two request slots.       *)
(* call_tool suspends on the upstream HTTP response, so it is two steps:   *)
(* call_tool_begin up to the request, call_tool_complete from the response *)
(* on.                                                                     *)
(***************************************************************************)
OperationIds == {o.operation_id : o \in openapi_spec}

OperationById(name) == CHOOSE o \in openapi_spec : o.operation_id = name

\* tools listed by get_airflow_tools(mode)
get_airflow_tools ==
    IF mode = "safe"
    THEN {o.operation_id : o \in {x \in openapi_spec : x.method = "GET"}}
    ELSE OperationIds

\* the safe server's check before the tool lookup: name.startswith("get_"),
\* over the operation ids and names in use
SafeModeAdmits(name) ==
    mode = "safe" =>
        name \in {"get_dags", "get_connections", "get_dag_runs_batch", "get_missing"}

\* how fetching and checking the OpenAPI document may end
FetchOutcomes == {"ok", "transport_error", "http_error", "not_a_dict", "missing_field"}

FetchFailures == FetchOutcomes \ {"ok"}

\* AirflowClient.__aenter__ up to the fetch: a new httpx.AsyncClient
client_enter(h) == [open |-> TRUE, opened |-> h.opened + 1, closed |-> h.closed]

\* AirflowClient.__aexit__: close the client that is set, if any
client_exit(h) ==
    IF h.open THEN [open |-> FALSE, opened |-> h.opened, closed |-> h.closed + 1] ELSE h

server_list_tools(c) ==
    /\ serve_pc = "run"
    /\ server_last' = Outcome("list_tools", c, "", "tools", "", get_airflow_tools)
    /\ UNCHANGED << inflight, sent, serve_pc, http_client, fetched,
                    configVars, refVars, cacheVars, navVars, callVars >>

\* call_tool up to the upstream request: mode check, get_tool, entering
\* tool.client (which fetches the OpenAPI document), tool.run's parameter
\* validation, client.execute.  When __aenter__ raises, __aexit__ is not run.
call_tool_begin(c, name, arguments_valid, fetch) ==
    /\ serve_pc = "run"
    /\ inflight[c] = "idle"
    /\ http_client.opened < MaxClientOpens
    /\ IF ~SafeModeAdmits(name)
       THEN /\ server_last' = Outcome("call_tool", c, name, "raised", "ValueError", {})
            /\ UNCHANGED << inflight, sent, http_client, fetched >>
       ELSE IF name \notin OperationIds
       THEN /\ server_last' = Outcome("call_tool", c, name, "raised", "ToolNotFoundError", {})
            /\ UNCHANGED << inflight, sent, http_client, fetched >>
       ELSE IF fetch # "ok"
       THEN /\ server_last' = Outcome("call_tool", c, name, "raised",
                                      IF fetch = "http_error" THEN "HTTPStatusError"
                                                              ELSE "ValueError", {})
            /\ http_client' = client_enter(http_client)
            /\ fetched' = fetched \cup {fetch}
            /\ UNCHANGED << inflight, sent >>
       ELSE IF ~arguments_valid
       THEN /\ server_last' = Outcome("call_tool", c, name, "raised", "ValidationError", {})
            /\ http_client' = client_exit(client_enter(http_client))
            /\ fetched' = fetched \cup {fetch}
            /\ UNCHANGED << inflight, sent >>
       ELSE /\ sent' = sent \cup {[method |-> OperationById(name).method,
                                   operation_id |-> name]}
            /\ inflight' = [inflight EXCEPT ![c] = name]
            /\ server_last' = Outcome("call_tool_begin", c, name, "awaiting", "", {})
            /\ http_client' = client_enter(http_client)
            /\ fetched' = fetched \cup {fetch}
    /\ UNCHANGED << serve_pc, configVars, refVars, cacheVars, navVars, callVars >>

\* call_tool from the upstream response on: response.raise_for_status(),
\* the TextContent reply, or the exception logged and raised again; either
\* way the handler leaves tool.client's context
call_tool_complete(c, response) ==
    /\ inflight[c] # "idle"
    /\ inflight' = [inflight EXCEPT ![c] = "idle"]
    /\ IF response = "ok"
       THEN server_last' = Outcome("call_tool", c, inflight[c], "content", "", {})
       ELSE server_last' = Outcome("call_tool", c, inflight[c], "raised", response, {})
    /\ http_client' = client_exit(http_client)
    /\ UNCHANGED << sent, serve_pc, fetched, configVars, refVars, cacheVars, navVars, callVars >>

\* serve() ends: server.run returns when the peer closes the stream, or
\* raises.  Handlers still suspended are cancelled and leave tool.client's
\* context on their way out; serve itself closes nothing.
serve_end(how) ==
    /\ serve_pc = "run"
    /\ serve_pc' = how
    /\ inflight' = [c \in Calls |-> "idle"]
    /\ http_client' = IF \E c \in Calls : inflight[c] # "idle"
                      THEN client_exit(http_client) ELSE http_client
    /\ UNCHANGED << sent, server_last, fetched, configVars, refVars, cacheVars, navVars, callVars >>

NextServer ==
    \/ \E c \in Calls : server_list_tools(c)
    \/ \E c \in Calls,
          name \in {o.operation_id : o \in AllOperations} \cup {"no_such_tool", "get_missing"},
          arguments_valid \in BOOLEAN,
          fetch \in FetchOutcomes :
           call_tool_begin(c, name, arguments_valid, fetch)
    \/ \E c \in Calls, response \in {"ok", "http_error", "timeout", "transport_error"} :
           call_tool_complete(c, response)
    \/ \E how \in {"returned", "raised"} : serve_end(how)

SpecServer == Init /\ [][NextServer]_vars

(***************************************************************************)
(* Claims about the low-level server (checked under SpecServer)            *)
(***************************************************************************)
MutatingIds == {o.operation_id : o \in {x \in openapi_spec : x.method # "GET"}}

\* C1: with mutations disallowed no operation whose method is not GET is
\* listed, and a call_tool naming one fails without reaching the upstream;
\* with mutations allowed every operation of the document is listed.
C1_ReadOnlyToolset ==
    /\ mode = "safe" =>
          /\ get_airflow_tools \cap MutatingIds = {}
          /\ server_last.op = "list_tools" => server_last.tools \cap MutatingIds = {}
          /\ \A c \in Calls : inflight[c] \notin MutatingIds
          /\ (server_last.op = "call_tool" /\ server_last.name \in MutatingIds)
                 => server_last.outcome = "raised"
    /\ mode = "unsafe" =>
          (server_last.op = "list_tools" => server_last.tools = OperationIds)

C18_ClientClosedOnce ==
    /\ (serve_pc # "run" /\ http_client.opened > 0)
          => (http_client.closed = 1 /\ ~http_client.open)
    /\ serve_pc = "run" => http_client.closed = 0

\* C19: once fetching or checking the OpenAPI document has failed (transport
\* failure, non-2xx reply, a document that is not an object or lacks openapi,
\* info or paths), no list_tools or call_tool is served.
C19_NothingServedAfterFailedFetch ==
    [][(fetched \cap FetchFailures # {}) => server_last' = server_last]_vars

\* C27: while a call_tool is suspended awaiting the upstream response, the
\* client it shares with the other calls stays open and is the one it
\* entered: no other call closes, unsets or replaces it.
C27_SessionKeptForCallsInFlight ==
    /\ [](\A c \in Calls : inflight[c] # "idle" => http_client.open)
    /\ [][(\E c \in Calls : inflight[c] # "idle" /\ inflight'[c] # "idle")
            => http_client' = http_client]_vars

\* C28: in safe mode every request sent upstream is a GET, whatever the
\* operation ids of the document are.
C28_SafeModeSendsOnlyGet ==
    mode = "safe" => \A r \in sent : r.method = "GET"

(***************************************************************************)
(* One operation from the OpenAPI document to the upstream:                *)
(* OperationParser.parse_operation compiles it, AirflowTool.run validates  *)
(* the arguments, AirflowClient.execute builds and issues the request.     *)
(***************************************************************************)
\* a path template is a sequence of literal characters and {name} fields
Lit(c) == [ph |-> FALSE, name |-> "", ch |-> c]

Ph(name) == [ph |-> TRUE, name |-> name, ch |-> ""]

Param(name, in, type, required) ==
    [name |-> name, in |-> in, type |-> type, has_required |-> TRUE, required |-> required]

\* a parameter object that has no "required" key
ParamNoRequired(name, in, type) ==
    [name |-> name, in |-> in, type |-> type, has_required |-> FALSE, required |-> FALSE]

Prop(name, type, required) == [name |-> name, type |-> type, required |-> required]

\* parameters: the path item's parameters followed by the operation's own;
\* request_body: the properties of the application/json object schema;
\* added_keys: the keys written into the operation object of the document
\* after it was loaded
OpenAPIOperation(id, method, path, parameters, request_body) ==
    [operation_id |-> id, method |-> method, path |-> path,
     parameters |-> parameters, request_body |-> request_body, added_keys |-> {}]

SampleOperations ==
    { OpenAPIOperation("get_dags", "get", <<Lit("/"), Lit("dags")>>,
          <<Param("limit", "query", "integer", FALSE),
            Param("only_active", "query", "boolean", FALSE),
            Param("order_by", "query", "array", FALSE),
            Param("dag_id_pattern", "query", "string", FALSE)>>, <<>>),
      OpenAPIOperation("get_task", "get",
          <<Lit("/"), Lit("dags"), Lit("/"), Ph("dag_id"),
            Lit("/"), Lit("tasks"), Lit("/"), Ph("task_id")>>,
          <<Param("dag_id", "path", "string", TRUE),
            Param("task_id", "path", "string", TRUE),
            Param("X-Trace", "header", "string", FALSE)>>, <<>>),
      OpenAPIOperation("get_dag_details", "get",
          <<Lit("/"), Lit("dags"), Lit("/"), Ph("dag_id"), Lit("/"), Lit("details")>>,
          <<ParamNoRequired("dag_id", "path", "string"),
            ParamNoRequired("limit", "query", "integer")>>, <<>>),
      OpenAPIOperation("post_dag_run", "post",
          <<Lit("/"), Lit("dags"), Lit("/"), Ph("dag_id"), Lit("/"), Lit("dagRuns")>>,
          <<Param("dag_id", "path", "string", TRUE)>>,
          <<Prop("dag_run_id", "string", TRUE), Prop("note", "string", FALSE)>>),
      OpenAPIOperation("patch_dag", "patch",
          <<Lit("/"), Lit("dags"), Lit("/"), Ph("dag_id")>>,
          <<Param("dag_id", "path", "string", TRUE),
            Param("update_mask", "query", "array", FALSE)>>,
          <<Prop("dag_id", "string", FALSE), Prop("is_paused", "boolean", FALSE)>>) }

_map_type(openapi_type) ==
    CASE openapi_type = "string"  -> "str"
      [] openapi_type = "integer" -> "int"
      [] openapi_type = "number"  -> "float"
      [] openapi_type = "boolean" -> "bool"
      [] openapi_type = "array"   -> "list"
      [] openapi_type = "object"  -> "dict"
      [] OTHER -> "Any"

\* "required": param.get("required", False); the mapped schema always has
\* the key, so the defaults of _create_input_model's schema.get("required", ...)
\* never apply
_map_parameter_schema(param) ==
    [type |-> _map_type(param.type),
     required |-> IF param.has_required THEN param.required ELSE FALSE]

\* target[param_in][param["name"]] = ... for the parameters of one location
RECURSIVE _process_parameters(_, _, _)
_process_parameters(params, param_in, target) ==
    IF params = <<>> THEN target
    ELSE _process_parameters(Tail(params), param_in,
            IF Head(params).in = param_in
            THEN DictSet(target, Head(params).name, _map_parameter_schema(Head(params)))
            ELSE target)

extract_parameters(op) ==
    [path   |-> _process_parameters(op.parameters, "path", <<>>),
     query  |-> _process_parameters(op.parameters, "query", <<>>),
     header |-> _process_parameters(op.parameters, "header", <<>>)]

\* fields[name] = (type, required) for every item of a dict of schemas
RECURSIVE AddFields(_, _)
AddFields(fields, schemas) ==
    IF schemas = <<>> THEN fields
    ELSE AddFields(DictSet(fields, Head(schemas).k, Head(schemas).v), Tail(schemas))

\* the body schema's properties as a dict of (type, required)
RECURSIVE BodyFields(_)
BodyFields(props) ==
    IF props = <<>> THEN <<>>
    ELSE <<Item(Head(props).name,
                [type |-> _map_type(Head(props).type), required |-> Head(props).required])>>
            \o BodyFields(Tail(props))

KeyList(d) == [i \in DOMAIN d |-> d[i].k]

_create_input_model(operation_id, parameters, body_schema) ==
    [name |-> operation_id,
     fields |-> AddFields(AddFields(AddFields(<<>>, parameters.path), parameters.query),
                          BodyFields(body_schema)),
     parameter_mapping |-> [path  |-> KeyList(parameters.path),
                            query |-> KeyList(parameters.query),
                            body  |-> KeyList(BodyFields(body_schema))]]

\* OperationParser.parse_operation for the operation at hand; it stores the
\* path and the path item in the operation object of self.raw_spec
\* (operation["path"] = path, operation["path_item"] = path_item)
parse_operation ==
    /\ operation # NoOperation
    /\ input_model = NoModel
    /\ input_model' = _create_input_model(operation.operation_id,
                                          extract_parameters(operation),
                                          operation.request_body)
    /\ operation' = [operation EXCEPT !.added_keys = @ \cup {"path", "path_item"}]
    /\ UNCHANGED << request, call_result, configVars, refVars, cacheVars, navVars, serverVars >>

(***************************************************************************)
(* Argument objects and upstream replies                                   *)
(***************************************************************************)
\* values a peer may pass for a property
Candidates(name) ==
    CASE name = "dag_id"      -> {Str(<<"a">>), Str(<<"a", "/", "b">>), Num(7)}
      [] name = "task_id"     -> {Str(<<"t">>)}
      [] name = "limit"       -> {Num(50), Str(<<"x">>), Null}
      [] name = "only_active" -> {Bool(TRUE), Bool(FALSE)}
      [] name = "order_by"    -> {Arr(<< <<"dag_id">>, <<"-", "x">> >>)}
      [] name = "dag_id_pattern" -> {Str(<<"a", "%">>), Null}
      [] name = "update_mask" -> {Arr(<< <<"is_paused">> >>)}
      [] name = "dag_run_id"  -> {Str(<<"r">>), Num(1)}
      [] name = "note"        -> {Str(<<"n">>), Null}
      [] name = "is_paused"   -> {Bool(TRUE)}
      [] OTHER -> {Null}

\* the argument objects over a list of property names, keys in that order
RECURSIVE ArgumentObjects(_)
ArgumentObjects(names) ==
    IF names = <<>> THEN {<<>>}
    ELSE LET rest == ArgumentObjects(Tail(names))
         IN  rest \cup {<<Item(Head(names), v)>> \o r : v \in Candidates(Head(names)), r \in rest}

\* an optional dict over a list of names
OptionalObjects(names) == {None} \cup {Some(d) : d \in ArgumentObjects(names)}

\* what the upstream answers to a request, or how the transport fails; a
\* content-type is the media type followed by its parameters
Reply200Json == [kind |-> "response", status |-> 200, content_type |-> <<"application/json">>,
                 body |-> "body_json"]

Reply200JsonCharset == [kind |-> "response", status |-> 200,
                        content_type |-> <<"application/json", "; charset=utf-8">>,
                        body |-> "body_json_utf8"]

Reply200Text == [kind |-> "response", status |-> 200, content_type |-> <<"text/plain">>,
                 body |-> "body_text"]

Reply403Json == [kind |-> "response", status |-> 403, content_type |-> <<"application/json">>,
                 body |-> "body_forbidden"]

Reply500Text == [kind |-> "response", status |-> 500, content_type |-> <<"text/html">>,
                 body |-> "body_error"]

TransportFailure == [kind |-> "client_error", status |-> 0, content_type |-> <<>>, body |-> ""]

\* the content-type starts with application/json
IsJsonContentType(content_type) ==
    content_type # <<>> /\ Head(content_type) = "application/json"

UpstreamReplies == {Reply200Json, Reply200JsonCharset, Reply200Text, Reply403Json, Reply500Text, TransportFailure}

(***************************************************************************)
(* Text conversions                                                        *)
(***************************************************************************)
Digit(d) == <<"0", "1", "2", "3", "4", "5", "6", "7", "8", "9">>[d + 1]

RECURSIVE DecimalText(_)
DecimalText(n) ==
    IF n < 0 THEN <<"-">> \o DecimalText(0 - n)
    ELSE IF n < 10 THEN <<Digit(n)>>
    ELSE DecimalText(n \div 10) \o <<Digit(n % 10)>>

\* repr() of a list of strings
RECURSIVE ReprItems(_)
ReprItems(a) ==
    IF a = <<>> THEN <<>>
    ELSE <<"'">> \o Head(a) \o <<"'">>
            \o (IF Tail(a) = <<>> THEN <<>> ELSE <<",", " ">> \o ReprItems(Tail(a)))

\* str(value), as str.format renders a value
StrOf(v) ==
    CASE v.t = "string"  -> v.s
      [] v.t = "integer" -> DecimalText(v.n)
      [] v.t = "boolean" -> IF v.b THEN <<"T", "r", "u", "e">> ELSE <<"F", "a", "l", "s", "e">>
      [] v.t = "null"    -> <<"N", "o", "n", "e">>
      [] v.t = "array"   -> <<"[">> \o ReprItems(v.a) \o <<"]">>

\* the text of a path template
RECURSIVE TemplateText(_)
TemplateText(path) ==
    IF path = <<>> THEN <<>>
    ELSE (IF Head(path).ph THEN <<"{", Head(path).name, "}">> ELSE <<Head(path).ch>>)
            \o TemplateText(Tail(path))

Placeholders(path) == {path[i].name : i \in {j \in DOMAIN path : path[j].ph}}

\* path.format(**path_params), given that every field has a keyword
RECURSIVE Format(_, _)
Format(path, path_params) ==
    IF path = <<>> THEN <<>>
    ELSE (IF Head(path).ph THEN StrOf(Get(path_params, Head(path).name))
                           ELSE <<Head(path).ch>>)
            \o Format(Tail(path), path_params)

(***************************************************************************)
(* AirflowClient.execute and AirflowTool.run                               *)
(***************************************************************************)
\* a text content part whose text is fn(value): str(parsed JSON), or the
\* decoded bytes of a body
TextContent(fn, value) == [type |-> "text", fn |-> fn, value |-> value]

\* isinstance(value, param_type) for the types _map_type yields; bool is a
\* subclass of int.  (typing.Any does not occur in the sample operations.)
IsInstance(v, param_type) ==
    CASE param_type = "str"   -> v.t = "string"
      [] param_type = "int"   -> v.t \in {"integer", "boolean"}
      [] param_type = "bool"  -> v.t = "boolean"
      [] param_type = "list"  -> v.t = "array"
      [] OTHER -> FALSE

\* some item of params names a parameter of the schema with a value of another type
TypeMismatch(params, schema) ==
    \E i \in DOMAIN params.items :
        /\ params.items[i].k \in Keys(schema)
        /\ ~IsInstance(params.items[i].v, Get(schema, params.items[i].k).type)

\* AirflowClient.execute from "try:" on, that is with a session: the request
\* it issues, if any, and how it ends
execute_result(path_params, query_params, body, reply) ==
    IF Truthy(path_params) /\ ~(Placeholders(operation.path) \subseteq Keys(path_params.items))
    THEN [request |-> NoRequest, outcome |-> "raised", error |-> "KeyError", value |-> NoValue]
    ELSE LET req == [method |-> operation.method,
                     url |-> IF Truthy(path_params)
                             THEN Format(operation.path, path_params.items)
                             ELSE TemplateText(operation.path),
                     params |-> query_params,
                     json |-> body]
         IN  IF reply.kind = "client_error"
             THEN [request |-> req, outcome |-> "raised", error |-> "ClientError", value |-> NoValue]
             ELSE IF reply.status >= 400
             THEN [request |-> req, outcome |-> "raised", error |-> "ClientResponseError",
                   value |-> NoValue]
             ELSE IF ~IsJsonContentType(reply.content_type)
             THEN [request |-> req, outcome |-> "raised", error |-> "ContentTypeError",
                   value |-> NoValue]
             ELSE [request |-> req, outcome |-> "returned", error |-> "",
                   value |-> Value("json", reply.body)]

\* AirflowClient.execute without the test for a session
client_execute_unchecked(session_open, path_params, query_params, body, reply) ==
    execute_result(path_params, query_params, body, reply)

\* AirflowClient.execute: "if not self._session: raise RuntimeError"
client_execute(session_open, path_params, query_params, body, reply) ==
    IF ~session_open
    THEN [request |-> NoRequest, outcome |-> "raised", error |-> "RuntimeError",
          value |-> NoValue]
    ELSE execute_result(path_params, query_params, body, reply)

\* AirflowTool._validate_parameters: the error it raises, or "" with the
\* validated triple.  OperationDetails has no request_body attribute, so a
\* non-empty body ends in AttributeError.
_validate_parameters(path_params, query_params, body) ==
    LET parameters == extract_parameters(operation)
    IN  IF Truthy(path_params) /\ TypeMismatch(path_params, parameters.path)
        THEN [error |-> "ValidationError", validated |-> Arguments(None, None, None)]
        ELSE IF Truthy(query_params) /\ TypeMismatch(query_params, parameters.query)
        THEN [error |-> "ValidationError", validated |-> Arguments(None, None, None)]
        ELSE IF Truthy(body)
        THEN [error |-> "AttributeError", validated |-> Arguments(None, None, None)]
        ELSE [error |-> "",
              validated |-> Arguments(IF Truthy(path_params) THEN path_params ELSE None,
                                      IF Truthy(query_params) THEN query_params ELSE None,
                                      None)]

\* AirflowTool.run (the sample operations declare no response model)
run_result(session_open, path_params, query_params, body, reply) ==
    LET v == _validate_parameters(path_params, query_params, body)
    IN  IF v.error # ""
        THEN [request |-> NoRequest, outcome |-> "raised", error |-> v.error, value |-> NoValue]
        ELSE client_execute(session_open, v.validated.path_params,
                            v.validated.query_params, v.validated.body, reply)

\* Nothing of one call is kept for the next (the tool and the parsed operation
\* are read only), so a behaviour follows one call of the compiled operation.

\* client.execute(operation_id, path_params, query_params, body)
execute(path_params, query_params, body, reply) ==
    /\ input_model # NoModel
    /\ call_result = NoCallResult
    /\ LET r == client_execute(http_client.open, path_params, query_params, body, reply)
       IN  /\ request' = r.request
           /\ call_result' = CallResult("execute", Arguments(path_params, query_params, body),
                                        r.outcome, r.error, <<>>, NoValue, r.value, reply)
    /\ UNCHANGED << operation, input_model, configVars, refVars, cacheVars, navVars, serverVars >>

\* tool.run(path_params, query_params, body)
run(path_params, query_params, body, reply) ==
    /\ input_model # NoModel
    /\ call_result = NoCallResult
    /\ LET r == run_result(http_client.open, path_params, query_params, body, reply)
       IN  /\ request' = r.request
           /\ call_result' = CallResult("run", Arguments(path_params, query_params, body),
                                        r.outcome, r.error, <<>>, NoValue, r.value, reply)
    /\ UNCHANGED << operation, input_model, configVars, refVars, cacheVars, navVars, serverVars >>

\* the server's call_tool(name, arguments) for the compiled operation:
\* inside "async with tool.client", tool.run(body=arguments), then one
\* TextContent of str(result)
call_tool(arguments, reply) ==
    /\ input_model # NoModel
    /\ call_result = NoCallResult
    /\ http_client.opened < MaxClientOpens
    /\ LET r == run_result(client_enter(http_client).open, None, None, Some(arguments), reply)
       IN  /\ request' = r.request
           /\ call_result' =
                 IF r.outcome = "returned"
                 THEN CallResult("call_tool", Arguments(None, None, Some(arguments)),
                                 "content", "", <<TextContent("str", r.value)>>, NoValue, NoValue,
                                 reply)
                 ELSE CallResult("call_tool", Arguments(None, None, Some(arguments)),
                                 "raised", r.error, <<>>, NoValue, NoValue, reply)
    /\ http_client' = client_exit(client_enter(http_client))
    /\ UNCHANGED << operation, input_model, inflight, sent, server_last, serve_pc, fetched,
                    configVars, refVars, cacheVars, navVars >>

\* "async with client" before the call: AirflowClient.__aenter__
client_aenter ==
    /\ call_result = NoCallResult
    /\ http_client.opened < MaxContexts
    /\ http_client' = client_enter(http_client)
    /\ UNCHANGED << inflight, sent, server_last, serve_pc, fetched,
                    callVars, configVars, refVars, cacheVars, navVars >>

\* the end of an "async with client" block: AirflowClient.__aexit__
client_aexit ==
    /\ call_result = NoCallResult
    /\ http_client.open
    /\ http_client' = client_exit(http_client)
    /\ UNCHANGED << inflight, sent, server_last, serve_pc, fetched,
                    callVars, configVars, refVars, cacheVars, navVars >>

FieldNames == KeyList(input_model.fields)

PathNames == input_model.parameter_mapping.path

QueryNames == input_model.parameter_mapping.query

BodyNames == input_model.parameter_mapping.body

InitCall ==
    /\ openapi_spec = {}
    /\ mode = "unsafe"
    /\ current_mode = NoCategory
    /\ current_tools = PERSISTENT_TOOLS
    /\ category_tool_instances = {}
    /\ mcp_tools = PERSISTENT_TOOLS
    /\ info_category = NoCategory
    /\ mounted = <<>>
    /\ notifications = [s \in Sessions |-> 0]
    /\ last = NoReply
    /\ wire = <<>>
    /\ inflight = [c \in Calls |-> "idle"]
    /\ sent = {}
    /\ server_last = NoOutcome
    /\ serve_pc = "run"
    /\ http_client = NoClient
    /\ fetched = {}
    /\ operation \in SampleOperations
    /\ input_model = NoModel
    /\ request = NoRequest
    /\ call_result = NoCallResult
    /\ max_cache_size = 1
    /\ NoToolManager
    /\ NoCompiler

NextCall ==
    \/ parse_operation
    \/ client_aenter
    \/ client_aexit
    \/ \E arguments \in ArgumentObjects(FieldNames), reply \in UpstreamReplies :
           call_tool(arguments, reply)
    \/ \E path_params \in OptionalObjects(PathNames),
          query_params \in OptionalObjects(QueryNames),
          body \in OptionalObjects(BodyNames), reply \in UpstreamReplies :
           run(path_params, query_params, body, reply)
    \/ \E path_params \in OptionalObjects(PathNames),
          query_params \in OptionalObjects(QueryNames),
          body \in OptionalObjects(BodyNames), reply \in UpstreamReplies :
           execute(path_params, query_params, body, reply)

SpecCall == InitCall /\ [][NextCall]_vars

(***************************************************************************)
(* The HTTP dispatcher of the plugin's toolset: call_tool(name, args,      *)
(* base_url, token), with the operation compiled into a descriptor whose   *)
(* parameter map has disjoint lists.                                       *)
(***************************************************************************)
\* URL-encoding of a substituted value: reserved characters are escaped
RECURSIVE PercentEncode(_)
PercentEncode(text) ==
    IF text = <<>> THEN <<>>
    ELSE (CASE Head(text) = "/" -> <<"%", "2", "F">>
            [] Head(text) = "%" -> <<"%", "2", "5">>
            [] OTHER -> <<Head(text)>>)
            \o PercentEncode(Tail(text))

\* the text a primitive is sent as
PrimitiveText(v) ==
    CASE v.t = "boolean" -> IF v.b THEN <<"t", "r", "u", "e">> ELSE <<"f", "a", "l", "s", "e">>
      [] v.t = "integer" -> DecimalText(v.n)
      [] OTHER -> v.s

\* a query value rendered with str(), as path.format renders a path value
serialize_query_value_str(v) ==
    IF v.t \in {"boolean", "integer"} THEN Str(StrOf(v)) ELSE v

\* a query value as handed to the HTTP session
serialize_query_value(v) ==
    IF v.t \in {"boolean", "integer"} THEN Str(PrimitiveText(v)) ELSE v

\* the query dictionary: null values are omitted, order is kept
RECURSIVE build_query(_)
build_query(query_args) ==
    IF query_args = <<>> THEN <<>>
    ELSE (IF Head(query_args).v.t = "null" THEN <<>>
          ELSE <<Item(Head(query_args).k, serialize_query_value(Head(query_args).v))>>)
            \o build_query(Tail(query_args))

\* the items of args whose key is in names, in the order of args
RECURSIVE Restrict(_, _)
Restrict(args, names) ==
    IF args = <<>> THEN <<>>
    ELSE (IF Head(args).k \in names THEN <<Head(args)>> ELSE <<>>)
            \o Restrict(Tail(args), names)

\* substitute the {name} fields of the template, URL-encoding each value
RECURSIVE render_url(_, _)
render_url(path, path_args) ==
    IF path = <<>> THEN <<>>
    ELSE (IF Head(path).ph
          THEN PercentEncode(PrimitiveText(Get(path_args, Head(path).name)))
          ELSE <<Head(path).ch>>)
            \o render_url(Tail(path), path_args)

MethodAllowsBody(method) == method \notin {"get", "head"}

\* JSON-Schema typing of the input schema; null is accepted for a property
\* that is not required
SchemaAccepts(v, field) ==
    CASE v.t = "null"    -> ~field.required
      [] v.t = "string"  -> field.type = "str"
      [] v.t = "integer" -> field.type = "int"
      [] v.t = "boolean" -> field.type = "bool"
      [] v.t = "array"   -> field.type = "list"

RequiredKeys(fields) == {fields[i].k : i \in {j \in DOMAIN fields : fields[j].v.required}}

\* the arguments fail validation against the input schema
FailsValidation(args, fields) ==
    \/ ~(RequiredKeys(fields) \subseteq Keys(args))
    \/ \E i \in DOMAIN args :
          args[i].k \in Keys(fields) /\ ~SchemaAccepts(args[i].v, Get(fields, args[i].k))

\* a {name} field of the template the arguments have no value for
UnfilledPlaceholder(args) ==
    \E n \in Placeholders(operation.path) :
        n \notin Keys(args) \/ Get(args, n).t = "null"

\* the operations whose parameter and body property names do not clash (the
\* descriptor's bucket of a clashing name is not defined)
ToolsetOperations ==
    {o \in SampleOperations :
        \A i \in DOMAIN o.parameters :
            /\ \A j \in DOMAIN o.request_body : o.parameters[i].name # o.request_body[j].name
            /\ \A j \in DOMAIN o.parameters :
                  (o.parameters[i].name = o.parameters[j].name) => i = j}

\* path parameters are required whatever the document says
RECURSIVE RequirePath(_)
RequirePath(parameters) ==
    IF parameters = <<>> THEN <<>>
    ELSE <<IF Head(parameters).in = "path"
           THEN [Head(parameters) EXCEPT !.has_required = TRUE, !.required = TRUE]
           ELSE Head(parameters)>> \o RequirePath(Tail(parameters))

\* the descriptor of the operation: input schema and parameter map
toolset_compile ==
    /\ operation # NoOperation
    /\ input_model = NoModel
    /\ input_model' = _create_input_model(operation.operation_id,
                          extract_parameters([operation EXCEPT
                              !.parameters = RequirePath(operation.parameters)]),
                          operation.request_body)
    /\ UNCHANGED << operation, request, call_result, configVars, refVars, cacheVars, navVars, serverVars >>

\* the call result chosen by the content-type alone
decode_response_by_content_type(reply) ==
    IF IsJsonContentType(reply.content_type)
    THEN [outcome |-> "content", content |-> <<>>, structured |-> Value("json", reply.body)]
    ELSE [outcome |-> "content",
          content |-> <<TextContent("decode", Value("bytes", reply.body))>>,
          structured |-> NoValue]

\* step 8: the call result decoded from the upstream response
decode_response(reply) ==
    IF reply.status >= 400
    THEN [outcome |-> "error_content",
          content |-> <<TextContent("decode", Value("bytes", reply.body))>>,
          structured |-> NoValue]
    ELSE IF IsJsonContentType(reply.content_type)
    THEN [outcome |-> "content", content |-> <<>>, structured |-> Value("json", reply.body)]
    ELSE [outcome |-> "content",
          content |-> <<TextContent("decode", Value("bytes", reply.body))>>,
          structured |-> NoValue]

\* steps 2 to 8 of the dispatcher's call_tool
toolset_call_tool(arguments, reply) ==
    /\ input_model # NoModel
    /\ call_result = NoCallResult
    /\ LET args == Arguments(None, None, Some(arguments))
           path_args  == Restrict(arguments, Range(PathNames))
           query_args == Restrict(arguments, Range(QueryNames))
           body_args  == Restrict(arguments, Range(BodyNames))
           req == [method |-> operation.method,
                   url    |-> render_url(operation.path, path_args),
                   params |-> Some(build_query(query_args)),
                   json   |-> IF body_args # <<>> /\ MethodAllowsBody(operation.method)
                              THEN Some(body_args) ELSE None]
           decoded == decode_response(reply)
       IN  IF FailsValidation(arguments, input_model.fields) \/ UnfilledPlaceholder(arguments)
           THEN /\ request' = NoRequest
                /\ call_result' = CallResult("toolset_call_tool", args, "raised",
                                             "InvalidArgument", <<>>, NoValue, NoValue, reply)
           ELSE /\ request' = req
                /\ call_result' =
                      IF reply.kind = "client_error"
                      THEN CallResult("toolset_call_tool", args, "raised", "UpstreamError",
                                      <<>>, NoValue, NoValue, reply)
                      ELSE CallResult("toolset_call_tool", args, decoded.outcome, "",
                                      decoded.content, decoded.structured, NoValue, reply)
    /\ UNCHANGED << operation, input_model, configVars, refVars, cacheVars, navVars, serverVars >>

InitToolset ==
    /\ openapi_spec = {}
    /\ mode = "unsafe"
    /\ current_mode = NoCategory
    /\ current_tools = PERSISTENT_TOOLS
    /\ category_tool_instances = {}
    /\ mcp_tools = PERSISTENT_TOOLS
    /\ info_category = NoCategory
    /\ mounted = <<>>
    /\ notifications = [s \in Sessions |-> 0]
    /\ last = NoReply
    /\ wire = <<>>
    /\ inflight = [c \in Calls |-> "idle"]
    /\ sent = {}
    /\ server_last = NoOutcome
    /\ serve_pc = "run"
    /\ http_client = NoClient
    /\ fetched = {}
    /\ operation \in ToolsetOperations
    /\ input_model = NoModel
    /\ request = NoRequest
    /\ call_result = NoCallResult
    /\ max_cache_size = 1
    /\ NoToolManager
    /\ NoCompiler

NextToolset ==
    \/ toolset_compile
    \/ \E arguments \in ArgumentObjects(FieldNames), reply \in UpstreamReplies :
           toolset_call_tool(arguments, reply)

SpecToolset == InitToolset /\ [][NextToolset]_vars

(***************************************************************************)
(* ToolManager: get_tool and its cache.  get_tool does not suspend between *)
(* taking self._lock and releasing it (the lock is free whenever a task    *)
(* reaches it, and nothing is awaited under it), so a call runs from the   *)
(* cache lookup to its return in one step; the calls of concurrent tasks   *)
(* run in any order.                                                       *)
(***************************************************************************)
\* the operation ids of the OpenAPI document the manager was built with
CacheSpecIds == {"get_dags", "get_dag", "post_dag_run"}

CachedIds(cache) == {cache[i].operation_id : i \in DOMAIN cache}

CachedTool(cache, operation_id) ==
    cache[CHOOSE i \in DOMAIN cache : cache[i].operation_id = operation_id]

\* popitem(last=True): the entry inserted last goes first
RECURSIVE _evict_newest(_)
_evict_newest(cache) ==
    IF Len(cache) >= max_cache_size
    THEN _evict_newest(SubSeq(cache, 1, Len(cache) - 1))
    ELSE cache

\* while len(self._tool_cache) >= self._max_cache_size: popitem(last=False)
RECURSIVE _evict_cache_if_needed(_)
_evict_cache_if_needed(cache) ==
    IF Len(cache) >= max_cache_size
    THEN _evict_cache_if_needed(Tail(cache))
    ELSE cache

\* get_tool without the cache lookup: a new tool for every call
get_tool_uncached(cache, operation_id) ==
    IF operation_id \notin CacheSpecIds
    THEN [outcome |-> "raised", error |-> "ToolNotFoundError", tool |-> 0, hit |-> FALSE,
          cache |-> cache]
    ELSE [outcome |-> "returned", error |-> "", tool |-> created + 1, hit |-> FALSE,
          cache |-> Append(_evict_cache_if_needed(cache),
                           [operation_id |-> operation_id, tool |-> created + 1])]

\* get_tool under self._lock: cache hit, or parse_operation, AirflowTool(...),
\* eviction and insertion
get_tool(cache, operation_id) ==
    IF operation_id \in CachedIds(cache)
    THEN [outcome |-> "returned", error |-> "",
          tool |-> CachedTool(cache, operation_id).tool, hit |-> TRUE, cache |-> cache]
    ELSE IF operation_id \notin CacheSpecIds
    THEN [outcome |-> "raised", error |-> "ToolNotFoundError", tool |-> 0, hit |-> FALSE,
          cache |-> cache]
    ELSE [outcome |-> "returned", error |-> "", tool |-> created + 1, hit |-> FALSE,
          cache |-> Append(_evict_cache_if_needed(cache),
                           [operation_id |-> operation_id, tool |-> created + 1])]

\* the ids of the entries of cache that are not in kept
RECURSIVE Dropped(_, _)
Dropped(cache, kept) ==
    IF cache = <<>> THEN <<>>
    ELSE (IF Head(cache) \in Range(kept) THEN <<>> ELSE <<Head(cache).operation_id>>)
            \o Dropped(Tail(cache), kept)

\* a task calls get_tool(operation_id): the argument check, then the call
\* waits for its turn
get_tool_call(t, operation_id) ==
    /\ pending[t] = NotPending
    /\ IF operation_id = ""
       THEN /\ get_last' = [task |-> t, operation_id |-> operation_id, outcome |-> "raised",
                            error |-> "ValueError", tool |-> 0, hit |-> FALSE,
                            evicted |-> <<>>]
            /\ UNCHANGED pending
       ELSE /\ pending' = [pending EXCEPT ![t] = operation_id]
            /\ UNCHANGED get_last
    /\ UNCHANGED << tool_cache, max_cache_size, created, results, evicted_any,
                    configVars, refVars, navVars, serverVars, callVars >>

\* the call runs
get_tool_run(t) ==
    /\ pending[t] # NotPending
    /\ created < MaxCreated
    /\ LET r == get_tool(tool_cache, pending[t])
           evicted == Dropped(tool_cache, r.cache)
       IN  /\ tool_cache' = r.cache
           /\ created' = IF r.outcome = "returned" /\ ~r.hit THEN created + 1 ELSE created
           /\ results' = IF r.outcome = "returned"
                         THEN [results EXCEPT ![t] =
                                  [operation_id |-> pending[t], tool |-> r.tool]]
                         ELSE results
           /\ evicted_any' = (evicted_any \/ evicted # <<>>)
           /\ get_last' = [task |-> t, operation_id |-> pending[t], outcome |-> r.outcome,
                           error |-> r.error, tool |-> r.tool, hit |-> r.hit,
                           evicted |-> evicted]
    /\ pending' = [pending EXCEPT ![t] = NotPending]
    /\ UNCHANGED << max_cache_size, configVars, refVars, navVars, serverVars, callVars >>

\* ToolManager(spec_path, base_url, auth_token, max_cache_size)
InitCache ==
    /\ openapi_spec = {}
    /\ mode = "unsafe"
    /\ current_mode = NoCategory
    /\ current_tools = PERSISTENT_TOOLS
    /\ category_tool_instances = {}
    /\ mcp_tools = PERSISTENT_TOOLS
    /\ info_category = NoCategory
    /\ mounted = <<>>
    /\ notifications = [s \in Sessions |-> 0]
    /\ last = NoReply
    /\ wire = <<>>
    /\ inflight = [c \in Calls |-> "idle"]
    /\ sent = {}
    /\ server_last = NoOutcome
    /\ serve_pc = "run"
    /\ http_client = NoClient
    /\ fetched = {}
    /\ operation = NoOperation
    /\ input_model = NoModel
    /\ request = NoRequest
    /\ call_result = NoCallResult
    /\ max_cache_size \in {1, 2}
    /\ NoToolManager
    /\ NoCompiler

NextCache ==
    \/ \E t \in GetTasks, operation_id \in CacheSpecIds \cup {"invalid_operation", ""} :
           get_tool_call(t, operation_id)
    \/ \E t \in GetTasks : get_tool_run(t)

SpecCache == InitCache /\ [][NextCache]_vars

(***************************************************************************)
(* The response model of an operation whose 200 response refers to a       *)
(* schema under components/schemas: OperationParser._parse_response_model, *)
(* _resolve_ref and the recursive _create_model, one call frame at a time. *)
(***************************************************************************)
\* the property lists a schema of the document may have; a property is a
\* scalar ("string"), a $ref to an object schema ("ref"), or an array whose
\* items are a $ref to an object schema ("array")
PropertyLists ==
    LET property_schemas ==
            {[kind |-> "string", ref |-> ""]}
                \cup {[kind |-> k, ref |-> t] : k \in {"ref", "array"}, t \in RefSchemas}
    IN  {<<>>} \cup {<<a>> : a \in property_schemas}
               \cup {<<a, b>> : a \in property_schemas, b \in property_schemas}

\* the schema the 200 response of the operation refers to
ResponseSchema == "Node"

\* a _create_model call in progress: the schema it expands and the property
\* its loop is at
Frame(schema, at) == [schema |-> schema, at |-> at]

Top == model_stack[Len(model_stack)]

\* the property the innermost call is at
TopProperty == components[Top.schema][Top.at]

\* the loop of the innermost call has properties left
TopHasProperty ==
    /\ model_stack # <<>>
    /\ Top.at <= Len(components[Top.schema])

\* _parse_response_model: resolve the response's $ref and call _create_model
_parse_response_model ==
    /\ compile_result = "none"
    /\ model_stack = <<>>
    /\ models_created = 0
    /\ model_stack' = <<Frame(ResponseSchema, 1)>>
    /\ schema_cache' = schema_cache \cup {ResponseSchema}
    /\ UNCHANGED << components, models_created, compile_result,
                    configVars, navVars, serverVars, callVars, cacheVars >>

\* _create_model, a property of a scalar type: field_type = _map_type(...)
_create_model_field ==
    /\ TopHasProperty
    /\ TopProperty.kind = "string"
    /\ model_stack' = [model_stack EXCEPT ![Len(model_stack)].at = @ + 1]
    /\ UNCHANGED << components, schema_cache, models_created, compile_result,
                    configVars, navVars, serverVars, callVars, cacheVars >>

\* _create_model, a property that is a $ref to an object schema or an array
\* of one: _resolve_ref, then the nested call self._create_model(...).  The
\* interpreter raises RecursionError when the calls nest RecursionLimit deep;
\* parse_operation logs it and raises it again.
_create_model_nested ==
    /\ TopHasProperty
    /\ TopProperty.kind \in {"ref", "array"}
    /\ schema_cache' = schema_cache \cup {TopProperty.ref}
    /\ IF Len(model_stack) < RecursionLimit
       THEN /\ model_stack' = Append(model_stack, Frame(TopProperty.ref, 1))
            /\ UNCHANGED compile_result
       ELSE /\ model_stack' = <<>>
            /\ compile_result' = "RecursionError"
    /\ UNCHANGED << components, models_created,
                    configVars, navVars, serverVars, callVars, cacheVars >>

\* _create_model past its loop: create_model(name, **fields) and return to
\* the caller, whose loop goes on to its next property
_create_model_return ==
    /\ model_stack # <<>>
    /\ ~TopHasProperty
    /\ models_created' = models_created + 1
    /\ LET callers == SubSeq(model_stack, 1, Len(model_stack) - 1)
       IN  IF callers = <<>>
           THEN /\ model_stack' = <<>>
                /\ compile_result' = "model"
           ELSE /\ model_stack' = [callers EXCEPT ![Len(callers)].at = @ + 1]
                /\ UNCHANGED compile_result
    /\ UNCHANGED << components, schema_cache,
                    configVars, navVars, serverVars, callVars, cacheVars >>

InitRefs ==
    /\ openapi_spec = {}
    /\ mode = "unsafe"
    /\ current_mode = NoCategory
    /\ current_tools = PERSISTENT_TOOLS
    /\ category_tool_instances = {}
    /\ mcp_tools = PERSISTENT_TOOLS
    /\ info_category = NoCategory
    /\ mounted = <<>>
    /\ notifications = [s \in Sessions |-> 0]
    /\ last = NoReply
    /\ wire = <<>>
    /\ inflight = [c \in Calls |-> "idle"]
    /\ sent = {}
    /\ server_last = NoOutcome
    /\ serve_pc = "run"
    /\ http_client = NoClient
    /\ fetched = {}
    /\ operation = NoOperation
    /\ input_model = NoModel
    /\ request = NoRequest
    /\ call_result = NoCallResult
    /\ max_cache_size = 1
    /\ NoToolManager
    /\ components \in [RefSchemas -> PropertyLists]
    /\ model_stack = <<>>
    /\ schema_cache = {}
    /\ models_created = 0
    /\ compile_result = "none"

NextRefs ==
    \/ _parse_response_model
    \/ _create_model_field
    \/ _create_model_nested
    \/ _create_model_return

SpecRefs == InitRefs /\ [][NextRefs]_vars

(***************************************************************************)
(* Claims about the parser, the tool and the client (checked under         *)
(* SpecCall)                                                               *)
(***************************************************************************)
Buckets == {"path", "query", "body"}

BucketsOf(p) == {b \in Buckets : p \in Range(input_model.parameter_mapping[b])}

\* C11: every property of a compiled operation's input schema is named in
\* exactly one of the parameter map's path, query and body lists, also when a
\* path or query parameter and a body property share a name.
C11_ParameterPartition ==
    input_model # NoModel =>
        \A p \in Range(FieldNames) : Cardinality(BucketsOf(p)) = 1

\* Re-extraction of the placeholder values from a rendered path: the path is
\* matched against the template segment by segment, a {name} segment takes
\* the URL-decoded segment of the path.
RECURSIVE SplitOn(_, _)
SplitOn(s, sep) ==
    IF s = <<>> THEN << <<>> >>
    ELSE LET r == SplitOn(Tail(s), sep)
         IN  IF Head(s) = sep THEN << <<>> >> \o r
             ELSE << <<Head(s)>> \o Head(r) >> \o Tail(r)

RECURSIVE PercentDecode(_)
PercentDecode(text) ==
    IF text = <<>> THEN <<>>
    ELSE IF Head(text) = "%" /\ Len(text) >= 3
    THEN (CASE text[2] = "2" /\ text[3] = "F" -> <<"/">>
            [] text[2] = "2" /\ text[3] = "5" -> <<"%">>
            [] OTHER -> <<"%", text[2], text[3]>>)
         \o PercentDecode(SubSeq(text, 4, Len(text)))
    ELSE <<Head(text)>> \o PercentDecode(Tail(text))

Extract(path, url) ==
    LET ts == SplitOn(path, Lit("/"))
        us == SplitOn(url, "/")
        Matches(i) == IF Len(ts[i]) = 1 /\ ts[i][1].ph THEN us[i] # <<>>
                      ELSE TemplateText(ts[i]) = us[i]
    IN  IF Len(ts) = Len(us) /\ \A i \in DOMAIN ts : Matches(i)
        THEN [ok |-> TRUE,
              values |-> [n \in Placeholders(path) |->
                             PercentDecode(us[CHOOSE i \in DOMAIN ts : ts[i] = <<Ph(n)>>])]]
        ELSE [ok |-> FALSE, values |-> <<>>]

\* the arguments of the call_tool that ran last
CallArguments == call_result.arguments.body.items

\* the exceptions that report invalid arguments
InvalidArgumentErrors == {"ValidationError", "ValueError", "InvalidArgument"}

\* C12: a call_tool whose arguments fail validation against the input schema,
\* or leave a path placeholder unfilled, ends with an invalid-argument error
\* and issues no HTTP request.
C12_ValidationPrecedesDispatch ==
    (call_result.op = "call_tool"
        /\ (FailsValidation(CallArguments, input_model.fields)
              \/ UnfilledPlaceholder(CallArguments)))
    => /\ call_result.outcome = "raised"
       /\ call_result.error \in InvalidArgumentErrors
       /\ request = NoRequest

\* the properties the parameter map names in one bucket only
OnlyIn(b) == {p \in Range(FieldNames) : BucketsOf(p) = {b}}

\* C13: for a call_tool with valid arguments a request is issued in which
\* every path argument is in the URL path, the query holds the (non-null)
\* query arguments and nothing else, the JSON body holds the body arguments
\* and nothing else, and there is no body when there are no body arguments.
C13_ArgumentsCarried ==
    (call_result.op = "call_tool"
        /\ ~FailsValidation(CallArguments, input_model.fields)
        /\ ~UnfilledPlaceholder(CallArguments))
    => LET path_args  == Restrict(CallArguments, OnlyIn("path"))
           query_args == Restrict(CallArguments, OnlyIn("query"))
           body_args  == Restrict(CallArguments, OnlyIn("body"))
           extracted  == Extract(operation.path, request.url)
       IN  /\ request # NoRequest
           /\ extracted.ok
           /\ \A n \in Placeholders(operation.path) \cap Keys(path_args) :
                 extracted.values[n] = PrimitiveText(Get(path_args, n))
           /\ Keys(request.params.items) \cap OnlyIn("query")
                 = {k \in Keys(query_args) : Get(query_args, k).t # "null"}
           /\ Keys(request.params.items) \cap (OnlyIn("path") \cup OnlyIn("body")) = {}
           /\ Restrict(request.json.items, OnlyIn("body")) = body_args
           /\ Keys(request.json.items) \cap (OnlyIn("path") \cup OnlyIn("query")) = {}
           /\ body_args = <<>> => ~Truthy(request.json)

\* C15: when execute, called with a session, is given path parameters that
\* supply every placeholder of the operation's path template, the placeholder
\* values re-extracted from the path of the request it issues are the supplied
\* path parameters.
C15_RenderRoundTrip ==
    (call_result.op = "execute"
        /\ call_result.error # "RuntimeError"
        /\ call_result.arguments.path_params.some
        /\ Placeholders(operation.path) \subseteq Keys(call_result.arguments.path_params.items))
    => LET supplied  == call_result.arguments.path_params.items
           extracted == Extract(operation.path, request.url)
       IN  /\ request # NoRequest
           /\ extracted.ok
           /\ \A n \in Placeholders(operation.path) :
                 extracted.values[n] = PrimitiveText(Get(supplied, n))

\* the names of the operation's body properties
BodyPropertyNames == {operation.request_body[i].name : i \in DOMAIN operation.request_body}

\* C21: in a compiled operation every path parameter is a required field of
\* the input schema, also when its declaration has no "required" key, and a
\* query parameter without a "required" key is optional (parameters that share
\* their name with a body property aside).
C21_PathParametersRequired ==
    input_model # NoModel =>
        \A i \in DOMAIN operation.parameters :
            LET p == operation.parameters[i]
            IN  p.name \notin BodyPropertyNames =>
                  /\ p.in = "path" => Get(input_model.fields, p.name).required
                  /\ (p.in = "query" /\ ~p.has_required)
                        => ~Get(input_model.fields, p.name).required

\* C22: no step changes the OpenAPI document the server was built from, the
\* category index, the operation object of the parsed document, or an input
\* model once it is compiled.
C22_BuiltOnceNeverModified ==
    [][/\ openapi_spec' = openapi_spec
       /\ categories' = categories
       /\ operation' = operation
       /\ input_model # NoModel => input_model' = input_model]_vars

(***************************************************************************)
(* Claims about the toolset's dispatcher (checked under SpecToolset)       *)
(***************************************************************************)
\* the number a decimal text denotes, or -1 when it is not the canonical
\* decimal text of a natural number
DigitValues(c) == {d \in 0..9 : Digit(d) = c}

RECURSIVE ParseDecimal(_)
ParseDecimal(text) ==
    IF text = <<>> \/ DigitValues(text[Len(text)]) = {} THEN -1
    ELSE LET d == CHOOSE x \in DigitValues(text[Len(text)]) : TRUE
             front == SubSeq(text, 1, Len(text) - 1)
         IN  IF front = <<>> THEN d
             ELSE IF front = <<"0">> \/ ParseDecimal(front) < 0 THEN -1
             ELSE 10 * ParseDecimal(front) + d

\* the query arguments of the toolset call that ran last
QueryArguments == Restrict(CallArguments, Range(QueryNames))

DecodedReply == call_result.reply

Decoded ==
    /\ call_result.op = "toolset_call_tool"
    /\ request # NoRequest
    /\ DecodedReply.kind = "response"

TextPartOf(reply) == <<TextContent("decode", Value("bytes", reply.body))>>

C17_UpstreamErrorIsContent ==
    (call_result.op = "call_tool" /\ request # NoRequest)
    => /\ (call_result.reply.kind = "response" /\ call_result.reply.status >= 400)
             => /\ call_result.outcome = "error_content"
                /\ call_result.content = TextPartOf(call_result.reply)
       /\ call_result.outcome = "raised" => call_result.reply.kind = "client_error"

(***************************************************************************)
(* Order of the messages of select_category (checked under Spec)           *)
(***************************************************************************)
\* C20: a select_category call that switches the category puts its reply and
\* then the tool_list_changed notification on the session's channel.
C20_NotificationAfterReply ==
    [][(last'.op = "select_category" /\ last'.kind = "switched") =>
          \E i, j \in DOMAIN wire' :
              /\ i < j
              /\ wire'[i] = "reply"
              /\ wire'[j] = "tool_list_changed"]_vars

\* C30: select_category(c) while c is the selected category leaves c
\* selected and the listed tools as they were, and mounts no category
\* sub-server a second time.
C30_ReselectIdempotent ==
    [][(last'.op = "select_category" /\ last'.kind = "switched"
            /\ last'.arg = current_mode) =>
          /\ current_mode' = current_mode
          /\ ListTools' = ListTools
          /\ mounted' = mounted]_vars

(***************************************************************************)
(* Claims about the ToolManager's cache (checked under SpecCache)          *)
(***************************************************************************)
\* C29: compiling terminates with a model also when a schema refers to itself
\* directly or through a cycle of $refs: it never runs out of stack, and a
\* ref that is being resolved is not expanded again (no schema is expanded
\* by two nested _create_model calls at once).
C29_CyclicRefsCompile ==
    /\ compile_result # "RecursionError"
    /\ \A i, j \in 1..Len(model_stack) :
          i < j => model_stack[i].schema # model_stack[j].schema

\* C26: AirflowClient.execute issues a request only with a session, which
\* exists only inside the client's async context: called while no session is
\* set (before the context is entered, after it is exited) it raises
\* RuntimeError and sends nothing, and called with one it does not raise
\* RuntimeError; leaving the context closes the session and unsets it.
C26_ExecuteOnlyInContext ==
    /\ [](http_client.open => http_client.opened > http_client.closed)
    /\ [][(call_result.op = "none" /\ call_result'.op = "execute")
            => IF http_client.open
               THEN call_result'.error # "RuntimeError"
               ELSE /\ call_result'.outcome = "raised"
                    /\ call_result'.error = "RuntimeError"
                    /\ request' = NoRequest]_vars
    /\ [][(http_client.open /\ http_client'.opened = http_client.opened
              /\ http_client' # http_client)
            => /\ ~http_client'.open
               /\ http_client'.closed = http_client.closed + 1]_vars

\* execute was called after the context was left and raised RuntimeError
C26_Witness ==
    /\ call_result.op = "execute"
    /\ call_result.error = "RuntimeError"
    /\ request = NoRequest
    /\ http_client.opened = 1
    /\ http_client.closed = 1

\* C24: the cache never holds more than max_cache_size entries; an entry
\* leaves it only when a miss finds it full, one at a time, and the one that
\* leaves was inserted before every entry that stays; the entries that stay
\* keep their order, so a hit changes nothing.  (Tools are numbered in the
\* order of their creation, which is the order of insertion.)
C24_CacheBoundedFifo ==
    [][LET removed == Range(tool_cache) \ Range(tool_cache')
           stayed  == Range(tool_cache) \cap Range(tool_cache')
           added   == Range(tool_cache') \ Range(tool_cache)
           Stayed(e) == e \in stayed
       IN  /\ Len(tool_cache') <= max_cache_size
           /\ \A r \in removed, k \in stayed : r.tool < k.tool
           /\ removed # {} => /\ Cardinality(removed) = 1
                              /\ Cardinality(added) = 1
                              /\ Len(tool_cache) = max_cache_size
           /\ SelectSeq(tool_cache', Stayed) = SelectSeq(tool_cache, Stayed)
           /\ get_last'.hit => (tool_cache' = tool_cache \/ get_last' = get_last)]_vars

C24_Witness ==
    /\ max_cache_size = 2
    /\ get_last.outcome = "returned"
    /\ Len(get_last.evicted) = 1
    /\ Len(tool_cache) = 2
    /\ created = 4

\* C25: a get_tool for a cached operation id returns the cached instance and
\* creates nothing; a miss for an operation of the document creates one
\* instance and caches it; an operation that is not in the document raises
\* ToolNotFoundError and leaves the cache as it was.  The cache never holds
\* two entries for one id and, as long as nothing was evicted, all callers
\* with the same id hold the same instance, whatever the order in which
\* concurrent calls run.
C25_OneInstancePerCachedId ==
    /\ [](/\ Cardinality(CachedIds(tool_cache)) = Len(tool_cache)
          /\ ~evicted_any =>
                /\ created = Len(tool_cache)
                /\ \A t1, t2 \in GetTasks :
                      (results[t1].operation_id = results[t2].operation_id)
                          => results[t1] = results[t2])
    /\ [][\A t \in GetTasks :
            (pending[t] # NotPending /\ pending'[t] = NotPending) =>
                IF pending[t] \in CachedIds(tool_cache)
                THEN /\ results'[t] = CachedTool(tool_cache, pending[t])
                     /\ get_last'.outcome = "returned"
                     /\ created' = created
                     /\ tool_cache' = tool_cache
                ELSE IF pending[t] \in CacheSpecIds
                THEN /\ created' = created + 1
                     /\ results'[t].operation_id = pending[t]
                     /\ results'[t] \in Range(tool_cache')
                     /\ \A u \in GetTasks : results[u].tool # results'[t].tool
                ELSE /\ get_last'.outcome = "raised"
                     /\ get_last'.error = "ToolNotFoundError"
                     /\ tool_cache' = tool_cache
                     /\ created' = created
                     /\ results' = results]_vars

C25_Witness ==
    /\ results["g1"] = results["g2"]
    /\ results["g1"].operation_id = "get_dags"
    /\ get_last.hit
    /\ created = 1
    /\ tool_cache = <<results["g1"]>>

====
